---- MODULE Spec2Model ----
(***************************************************************************)
(* The translation router of src/app.py: detect_lang, the global           *)
(* translation_cache and translate_text_process, called from the           *)
(* translate_api handler by concurrent request threads.                    *)
(*                                                                         *)
(* A text is a sequence of characters.  The four capabilities (the two     *)
(* Marian models and the two OpenCC converters) are black boxes: an        *)
(* invocation yields any text or raises.  When the capabilities are        *)
(* deterministic (det) the output chosen for an input is recorded in stub  *)
(* the first time the capability is applied to it and reused afterwards,   *)
(* which is the same as fixing the whole function beforehand.              *)
(***************************************************************************)
EXTENDS Integers, Sequences, FiniteSets, TLC

VARIABLES
    translation_cache,  \* app.py:120  key <<text, src, tgt>> -> text
    stack,              \* per caller: the frames of translate_text_process
    req,                \* per caller: arguments of its current or last request
    ret,                \* per caller: outcome of its last request
    trace,              \* per caller: <<capability, input, outcome>> of each
                        \* capability invocation made for the request
    seen,               \* per caller: values earlier equal requests returned
    storedBy,           \* key -> the caller whose store wrote the entry first
    stub,               \* <<capability, text>> -> output, once applied (det)
    det,                \* the capabilities are deterministic
    ncalls,             \* requests issued so far
    cjk_all_alpha,      \* the interpreter's Unicode database classes every
                        \* code point of U+4E00..U+9FFF as a letter
                        \* (Unicode 14, Python 3.11, and later)
    dl_text,            \* detect_lang: its argument
    dl_out,             \* detect_lang: its return value, "none" before
    jar,                \* the session cookies the server has issued; a
                        \* client may send any of them with a request
    last,               \* the last request served: handler, method,
                        \* password, session before and after, body run
    tasks_file,         \* tasks_<uid>.json of one user: the list of tasks
    audio_dir,          \* sessions/<uid>/: id n -> the request whose
                        \* recording session_<n>.webm holds
    sv                  \* per save_session request: position, audio part,
                        \* the local variables tasks and new_id

routerVars ==
    <<translation_cache, stack, req, ret, trace, seen, storedBy, stub, det, ncalls>>

detectVars == <<cjk_all_alpha, dl_text, dl_out>>

authVars == <<jar, last>>

taskVars == <<tasks_file, audio_dir, sv>>

vars == <<routerVars, detectVars, authVars, taskVars>>

-----------------------------------------------------------------------------
(* Bounds *)

MaxLen == 1

MaxCalls == 2

Callers == {"c1", "c2"}

\* "h": a Latin letter; "Z": a CJK ideograph of U+4E00-U+9FFF.
Chars == {"h", "Z"}

Texts == UNION {[1..n -> Chars] : n \in 0..MaxLen}

LanguageTags == {"en", "zh-CN", "zh-TW", "auto", "fr"}

Capabilities == {"model_en_zh", "model_zh_en", "converter_s2t", "converter_t2s"}

-----------------------------------------------------------------------------
(* detect_lang, app.py:123-126 *)

\* "一" <= c <= "鿿": "Z" is an ideograph, "U" one of U+9FFD..U+9FFF, which
\* are in the range and were unassigned before Unicode 14
InCJK(c) == c \in {"Z", "U"}

\* c.isalpha(): true of Latin letters and of CJK ideographs alike, false of
\* digits and of code points the Unicode database has not assigned
isalpha(c) == c \in {"h", "Z"} \/ (c = "U" /\ cjk_all_alpha)

detect_langGE(text) ==
    LET zh == Cardinality({i \in DOMAIN text : InCJK(text[i])})
        en == Cardinality({i \in DOMAIN text : isalpha(text[i])})
    IN  IF zh >= en THEN "zh-CN" ELSE "en"

detect_lang(text) ==
    LET zh == Cardinality({i \in DOMAIN text : InCJK(text[i])})
        en == Cardinality({i \in DOMAIN text : isalpha(text[i])})
    IN  IF zh > en THEN "zh-CN" ELSE "en"

-----------------------------------------------------------------------------
(* translate_text_process, app.py:129-168, as pure pieces *)

IsEmptyNever(text) == FALSE

\* line 130: not text
IsEmpty(text) == text = <<>>

ResolveSrcKeep(text, src) == src

\* lines 133-134
ResolveSrc(text, src) == IF src = "auto" THEN detect_lang(text) ELSE src

KeyTextOnly(text, src, tgt) == <<text, "", "">>

\* line 136
Key(text, src, tgt) == <<text, src, tgt>>

CacheHitNever(key) == FALSE

\* line 137
CacheHit(key) == key \in DOMAIN translation_cache

RouteByTarget(src, tgt) ==
    IF tgt = "zh-CN" /\ src # "zh-TW" THEN "model_en_zh"
    ELSE IF src = "zh-CN" /\ tgt = "en" THEN "model_zh_en"
    ELSE IF src = "zh-CN" /\ tgt = "zh-TW" THEN "converter_s2t"
    ELSE IF src = "zh-TW" /\ tgt = "zh-CN" THEN "converter_t2s"
    ELSE IF src = "en" /\ tgt = "zh-TW" THEN "compose_en_zhtw"
    ELSE IF src = "zh-TW" /\ tgt = "en" THEN "compose_zhtw_en"
    ELSE "passthrough"

RouteBySource(src, tgt) ==
    IF src = "en" /\ tgt = "zh-CN" THEN "model_en_zh"
    ELSE IF src = "zh-CN" /\ tgt # "zh-TW" THEN "model_zh_en"
    ELSE IF src = "zh-CN" /\ tgt = "zh-TW" THEN "converter_s2t"
    ELSE IF src = "zh-TW" /\ tgt = "zh-CN" THEN "converter_t2s"
    ELSE IF src = "en" /\ tgt = "zh-TW" THEN "compose_en_zhtw"
    ELSE IF src = "zh-TW" /\ tgt = "en" THEN "compose_zhtw_en"
    ELSE "passthrough"

RouteSwapped(src, tgt) ==
    IF src = "en" /\ tgt = "zh-CN" THEN "model_zh_en"
    ELSE IF src = "zh-CN" /\ tgt = "en" THEN "model_en_zh"
    ELSE IF src = "zh-CN" /\ tgt = "zh-TW" THEN "converter_s2t"
    ELSE IF src = "zh-TW" /\ tgt = "zh-CN" THEN "converter_t2s"
    ELSE IF src = "en" /\ tgt = "zh-TW" THEN "compose_en_zhtw"
    ELSE IF src = "zh-TW" /\ tgt = "en" THEN "compose_zhtw_en"
    ELSE "passthrough"

\* the if/elif chain of lines 140-165
Route(src, tgt) ==
    IF src = "en" /\ tgt = "zh-CN" THEN "model_en_zh"
    ELSE IF src = "zh-CN" /\ tgt = "en" THEN "model_zh_en"
    ELSE IF src = "zh-CN" /\ tgt = "zh-TW" THEN "converter_s2t"
    ELSE IF src = "zh-TW" /\ tgt = "zh-CN" THEN "converter_t2s"
    ELSE IF src = "en" /\ tgt = "zh-TW" THEN "compose_en_zhtw"
    ELSE IF src = "zh-TW" /\ tgt = "en" THEN "compose_zhtw_en"
    ELSE "passthrough"

IsComposed(src, tgt) == Route(src, tgt) \in {"compose_en_zhtw", "compose_zhtw_en"}

Hop1PairComposed(src, tgt) ==
    IF Route(src, tgt) = "compose_en_zhtw" THEN <<"zh-TW", "en">> ELSE <<"zh-TW", "zh-CN">>

\* lines 157 and 161: the language pair of the first recursive call
Hop1Pair(src, tgt) ==
    IF Route(src, tgt) = "compose_en_zhtw" THEN <<"en", "zh-CN">> ELSE <<"zh-TW", "zh-CN">>

Hop2PairIdentity(src, tgt) == <<"zh-CN", "zh-CN">>

\* lines 158 and 162: the language pair of the second recursive call
Hop2Pair(src, tgt) ==
    IF Route(src, tgt) = "compose_en_zhtw" THEN <<"zh-CN", "zh-TW">> ELSE <<"zh-CN", "en">>

StoreResultReset(key, result) == [k \in {key} |-> result]

StoreResultIfNonEmpty(key, result) ==
    IF result = <<>> THEN translation_cache
    ELSE [k \in DOMAIN translation_cache \cup {key} |->
            IF k = key THEN result ELSE translation_cache[k]]

\* line 167: translation_cache[key] = result
StoreResult(key, result) ==
    [k \in DOMAIN translation_cache \cup {key} |->
        IF k = key THEN result ELSE translation_cache[k]]

\* lines 130-138 of a call: what the call does before it dispatches
EnterKind(text, src, tgt) ==
    IF IsEmpty(text) THEN "empty"
    ELSE IF CacheHit(Key(text, ResolveSrc(text, src), tgt)) THEN "hit"
    ELSE "miss"

\* the value a call returns at line 131 or line 138
EnterValue(text, src, tgt) ==
    IF IsEmpty(text) THEN <<>>
    ELSE translation_cache[Key(text, ResolveSrc(text, src), tgt)]

\* a frame that missed the cache and stands at line 140
NewFrame(text, src, tgt) ==
    [text |-> text, src |-> ResolveSrc(text, src), tgt |-> tgt,
     pc |-> "dispatch", mid |-> <<>>, result |-> <<>>]

FrameKey(f) == Key(f.text, f.src, f.tgt)

-----------------------------------------------------------------------------
(* State *)

NoReq == <<>>

NoRet == [kind |-> "none", val |-> <<>>]

Returned(v) == [kind |-> "value", val |-> v]

Raised == [kind |-> "raised", val |-> <<>>]

Top(c) == stack[c][Len(stack[c])]

Running(c) == stack[c] # <<>>

\* no call of detect_lang on its own
DetectIdle ==
    /\ cjk_all_alpha = TRUE
    /\ dl_text = <<>>
    /\ dl_out = "none"

\* a fresh browser: the session holds no key (flask's empty session)
NoSession == [user_id |-> "absent", dev_verified |-> "absent"]

NoRequest ==
    [handler |-> "none", method |-> "GET", pwd |-> "", before |-> NoSession,
     after |-> NoSession, ran |-> FALSE, status |-> "none"]

\* no request served yet
AuthIdle ==
    /\ jar = {NoSession}
    /\ last = NoRequest

\* concurrent save_session requests of the one user
Requests == {"r1", "r2", "r3"}

NoSave == [pc |-> "idle", audio |-> "none", tasks |-> <<>>, new_id |-> 0]

\* no task saved, no recording stored, no save_session under way
TasksIdle ==
    /\ tasks_file = <<>>
    /\ audio_dir = [n \in {} |-> "r1"]
    /\ sv = [r \in Requests |-> NoSave]

\* the router at start-up with deterministic capabilities
RouterIdle ==
    /\ translation_cache = [k \in {} |-> <<>>]
    /\ stack = [c \in Callers |-> <<>>]
    /\ req = [c \in Callers |-> NoReq]
    /\ ret = [c \in Callers |-> NoRet]
    /\ trace = [c \in Callers |-> <<>>]
    /\ seen = [c \in Callers |-> {}]
    /\ storedBy = [k \in {} |-> "c1"]
    /\ stub = [k \in {} |-> <<>>]
    /\ det = TRUE
    /\ ncalls = 0

Init ==
    /\ translation_cache = [k \in {} |-> <<>>]
    /\ stack = [c \in Callers |-> <<>>]
    /\ req = [c \in Callers |-> NoReq]
    /\ ret = [c \in Callers |-> NoRet]
    /\ trace = [c \in Callers |-> <<>>]
    /\ seen = [c \in Callers |-> {}]
    /\ storedBy = [k \in {} |-> "c1"]
    /\ stub = [k \in {} |-> <<>>]
    /\ det \in BOOLEAN
    /\ ncalls = 0
    /\ DetectIdle
    /\ AuthIdle
    /\ TasksIdle

-----------------------------------------------------------------------------
(* Actions *)

\* translate_api, app.py:244: a request thread calls
\* translate_text_process(text, src, tgt) and runs its lines 130-138.
Resolve(c, text, src, tgt) ==
    /\ ~Running(c)
    /\ ncalls < MaxCalls
    /\ ncalls' = ncalls + 1
    /\ req' = [req EXCEPT ![c] = <<text, src, tgt>>]
    /\ trace' = [trace EXCEPT ![c] = <<>>]
    /\ seen' = [seen EXCEPT ![c] =
                  {ret[d].val : d \in {e \in Callers :
                        ret[e].kind = "value" /\ req[e] = <<text, src, tgt>>}}]
    /\ IF EnterKind(text, src, tgt) = "miss"
       THEN /\ stack' = [stack EXCEPT ![c] = <<NewFrame(text, src, tgt)>>]
            /\ ret' = [ret EXCEPT ![c] = NoRet]
       ELSE /\ stack' = stack
            /\ ret' = [ret EXCEPT ![c] = Returned(EnterValue(text, src, tgt))]
    /\ UNCHANGED <<translation_cache, storedBy, stub, det>>
    /\ UNCHANGED <<detectVars, authVars, taskVars>>

\* The outputs a capability may give for a text.
Outputs(cap, text) ==
    IF det /\ <<cap, text>> \in DOMAIN stub THEN {stub[<<cap, text>>]} ELSE Texts

\* lines 141-143, 146-148, 151, 154: the capability of the frame's pair is
\* applied to the frame's text and yields a result
Invoke(c) ==
    /\ Running(c)
    /\ Top(c).pc = "dispatch"
    /\ Route(Top(c).src, Top(c).tgt) \in Capabilities
    /\ LET f == Top(c)
           cap == Route(f.src, f.tgt)
       IN  \E out \in Outputs(cap, f.text) :
             /\ stack' = [stack EXCEPT ![c][Len(stack[c])] =
                            [f EXCEPT !.pc = "store", !.result = out]]
             /\ trace' = [trace EXCEPT ![c] = Append(@, <<cap, f.text, "ok">>)]
             /\ stub' = IF det
                        THEN [k \in DOMAIN stub \cup {<<cap, f.text>>} |->
                                 IF k = <<cap, f.text>> THEN out ELSE stub[k]]
                        ELSE stub
    /\ UNCHANGED <<translation_cache, req, ret, seen, storedBy, det, ncalls>>
    /\ UNCHANGED <<detectVars, authVars, taskVars>>

InvokeFailsSwallowed(c) ==
    /\ Running(c)
    /\ Top(c).pc = "dispatch"
    /\ Route(Top(c).src, Top(c).tgt) \in Capabilities
    /\ stack' = [stack EXCEPT ![c][Len(stack[c])] =
                    [Top(c) EXCEPT !.pc = "store", !.result = Top(c).text]]
    /\ trace' = [trace EXCEPT ![c] =
                    Append(@, <<Route(Top(c).src, Top(c).tgt), Top(c).text, "failed">>)]
    /\ UNCHANGED <<translation_cache, req, ret, seen, storedBy, stub, det, ncalls>>
    /\ UNCHANGED <<detectVars, authVars, taskVars>>

\* lines 141-143, 146-148, 151, 154: the capability raises; nothing in
\* translate_text_process or translate_api catches, so every frame unwinds
InvokeFails(c) ==
    /\ Running(c)
    /\ Top(c).pc = "dispatch"
    /\ Route(Top(c).src, Top(c).tgt) \in Capabilities
    /\ stack' = [stack EXCEPT ![c] = <<>>]
    /\ trace' = [trace EXCEPT ![c] =
                    Append(@, <<Route(Top(c).src, Top(c).tgt), Top(c).text, "failed">>)]
    /\ ret' = [ret EXCEPT ![c] = Raised]
    /\ UNCHANGED <<translation_cache, req, seen, storedBy, stub, det, ncalls>>
    /\ UNCHANGED <<detectVars, authVars, taskVars>>

\* lines 157 and 161: mid = translate_text_process(text, <hop 1 pair>),
\* up to the callee's line 138
Hop1(c) ==
    /\ Running(c)
    /\ Top(c).pc = "dispatch"
    /\ IsComposed(Top(c).src, Top(c).tgt)
    /\ LET f == Top(c)
           p == Hop1Pair(f.src, f.tgt)
       IN  IF EnterKind(f.text, p[1], p[2]) = "miss"
           THEN stack' = [stack EXCEPT ![c] =
                    Append([@ EXCEPT ![Len(@)] = [f EXCEPT !.pc = "hop1"]],
                           NewFrame(f.text, p[1], p[2]))]
           ELSE stack' = [stack EXCEPT ![c][Len(stack[c])] =
                    [f EXCEPT !.pc = "hop2", !.mid = EnterValue(f.text, p[1], p[2])]]
    /\ UNCHANGED <<translation_cache, req, ret, trace, seen, storedBy, stub, det, ncalls>>
    /\ UNCHANGED <<detectVars, authVars, taskVars>>

\* lines 158 and 162: result = translate_text_process(mid, <hop 2 pair>),
\* up to the callee's line 138
Hop2(c) ==
    /\ Running(c)
    /\ Top(c).pc = "hop2"
    /\ LET f == Top(c)
           p == Hop2Pair(f.src, f.tgt)
       IN  IF EnterKind(f.mid, p[1], p[2]) = "miss"
           THEN stack' = [stack EXCEPT ![c] =
                    Append([@ EXCEPT ![Len(@)] = [f EXCEPT !.pc = "hop2w"]],
                           NewFrame(f.mid, p[1], p[2]))]
           ELSE stack' = [stack EXCEPT ![c][Len(stack[c])] =
                    [f EXCEPT !.pc = "store", !.result = EnterValue(f.mid, p[1], p[2])]]
    /\ UNCHANGED <<translation_cache, req, ret, trace, seen, storedBy, stub, det, ncalls>>
    /\ UNCHANGED <<detectVars, authVars, taskVars>>

\* lines 164-165: result = text
Passthrough(c) ==
    /\ Running(c)
    /\ Top(c).pc = "dispatch"
    /\ Route(Top(c).src, Top(c).tgt) = "passthrough"
    /\ stack' = [stack EXCEPT ![c][Len(stack[c])] =
                    [Top(c) EXCEPT !.pc = "store", !.result = Top(c).text]]
    /\ UNCHANGED <<translation_cache, req, ret, trace, seen, storedBy, stub, det, ncalls>>
    /\ UNCHANGED <<detectVars, authVars, taskVars>>

\* line 168 seen from the caller: the value arrives at line 157/161 (mid) or
\* at line 158/162 (result)
Deliver(parent, v) ==
    IF parent.pc = "hop1"
    THEN [parent EXCEPT !.pc = "hop2", !.mid = v]
    ELSE [parent EXCEPT !.pc = "store", !.result = v]

\* lines 167-168: translation_cache[key] = result; return result
Store(c) ==
    /\ Running(c)
    /\ Top(c).pc = "store"
    /\ LET f == Top(c)
           n == Len(stack[c])
       IN  /\ translation_cache' = StoreResult(FrameKey(f), f.result)
           /\ storedBy' = [k \in DOMAIN storedBy \cup {FrameKey(f)} |->
                             IF k \in DOMAIN storedBy THEN storedBy[k] ELSE c]
           /\ IF n = 1
              THEN /\ stack' = [stack EXCEPT ![c] = <<>>]
                   /\ ret' = [ret EXCEPT ![c] = Returned(f.result)]
              ELSE /\ stack' = [stack EXCEPT ![c] =
                                  <<Deliver(stack[c][1], f.result)>>]
                   /\ ret' = ret
    /\ UNCHANGED <<req, trace, seen, stub, det, ncalls>>
    /\ UNCHANGED <<detectVars, authVars, taskVars>>

Next ==
    \/ \E c \in Callers, text \in Texts, src \in LanguageTags, tgt \in LanguageTags :
          Resolve(c, text, src, tgt)
    \/ \E c \in Callers : Invoke(c)
    \/ \E c \in Callers : InvokeFails(c)
    \/ \E c \in Callers : Hop1(c)
    \/ \E c \in Callers : Hop2(c)
    \/ \E c \in Callers : Passthrough(c)
    \/ \E c \in Callers : Store(c)

Spec == Init /\ [][Next]_vars

\* a step of caller c inside translate_text_process
CallerStep(c) ==
    \/ Invoke(c)
    \/ InvokeFails(c)
    \/ Hop1(c)
    \/ Hop2(c)
    \/ Passthrough(c)
    \/ Store(c)

\* Every request thread keeps being scheduled, and a capability that has
\* been invoked comes back (with a result or with an exception).
FairSpec == Spec /\ \A c \in Callers : WF_vars(CallerStep(c))

-----------------------------------------------------------------------------
(* Sessions and the login gate, app.py:58-69 and 174-224 *)

\* Google accounts (the "sub" of the userinfo)
Users == {"u1", "u2"}

\* app.py:31
DEV_PASSWORD == "good"

\* values of the "password" form field; "" when the field is missing
Passwords == {"good", "bad", ""}

\* the handlers behind login_required, app.py:230-321
ProtectedHandlers ==
    {"index", "translate_api", "get_tasks", "get_task_detail", "save_session",
     "serve_audio"}

Sessions == [user_id : Users \cup {"absent"}, dev_verified : {"absent", "false", "true"}]

PasswordOkAny(pwd) == TRUE

\* line 211: pwd == DEV_PASSWORD
PasswordOk(pwd) == pwd = DEV_PASSWORD

\* lines 64-68: where login_required sends a request with session s
Gate(s) ==
    IF s.user_id = "absent" THEN "login"
    ELSE IF s.dev_verified # "true" THEN "verify_dev"
    ELSE "run"

\* the response of a request sets the session cookie to s2
Served(h, m, pwd, s1, s2, body, st) ==
    /\ jar' = jar \cup {s2}
    /\ last' = [handler |-> h, method |-> m, pwd |-> pwd, before |-> s1,
                after |-> s2, ran |-> body, status |-> st]
    /\ UNCHANGED <<routerVars, detectVars, taskVars>>

\* login, lines 174-178: redirect to Google, the session is left alone
Login(s) ==
    Served("login", "GET", "", s, s, TRUE, "redirect")

\* auth_callback, lines 182-199, with Google answering for account u
AuthCallback(s, u) ==
    Served("auth_callback", "GET", "", s,
           [user_id |-> u, dev_verified |-> "false"], TRUE, "redirect")

\* auth_callback when authorize_access_token raises (line 184)
AuthCallbackFails(s) ==
    Served("auth_callback", "GET", "", s, s, FALSE, "error")

\* verify_dev, lines 202-217
VerifyDev(s, m, pwd) ==
    IF s.user_id = "absent"
    THEN Served("verify_dev", m, pwd, s, s, FALSE, "redirect")
    ELSE IF m = "POST" /\ PasswordOk(pwd)
    THEN Served("verify_dev", m, pwd, s, [s EXCEPT !.dev_verified = "true"],
                TRUE, "redirect")
    ELSE Served("verify_dev", m, pwd, s, s, TRUE, "page")

\* logout, lines 220-224: session.clear()
Logout(s) ==
    Served("logout", "GET", "", s, NoSession, TRUE, "redirect")

\* a handler behind login_required, lines 63-67: its body runs only past
\* the gate and does not write the session
Protected(s, h) ==
    LET m == IF h \in {"translate_api", "save_session"} THEN "POST" ELSE "GET"
    IN  IF Gate(s) = "run"
        THEN Served(h, m, "", s, s, TRUE, "ok")
        ELSE Served(h, m, "", s, s, FALSE, "redirect")

InitAuth ==
    /\ RouterIdle
    /\ DetectIdle
    /\ AuthIdle
    /\ TasksIdle

NextAuth ==
    \E s \in jar :
        \/ Login(s)
        \/ \E u \in Users : AuthCallback(s, u)
        \/ AuthCallbackFails(s)
        \/ \E m \in {"GET", "POST"}, pwd \in Passwords : VerifyDev(s, m, pwd)
        \/ Logout(s)
        \/ \E h \in ProtectedHandlers : Protected(s, h)

SpecAuth == InitAuth /\ [][NextAuth]_vars

-----------------------------------------------------------------------------
(* save_session by concurrent requests of one user, app.py:276-313 *)

\* the "audio" part of the form: a recording, an empty one, or none
AudioParts == {"recording", "empty", "missing"}

\* line 285: audio_file is None, or has no filename, or has no content
AudioEmpty(a) == a # "recording"

\* line 289: max([task["id"] for task in tasks], default=0) + 1
NewId(tasks) ==
    IF tasks = <<>> THEN 1
    ELSE (CHOOSE m \in {tasks[i].id : i \in DOMAIN tasks} :
              \A i \in DOMAIN tasks : tasks[i].id <= m) + 1

\* lines 280-286: the request arrives; without a recording it is refused
SaveBegin(r, a) ==
    /\ sv[r].pc = "idle"
    /\ sv' = [sv EXCEPT ![r] =
                [@ EXCEPT !.audio = a,
                          !.pc = IF AudioEmpty(a) THEN "refused" ELSE "load"]]
    /\ UNCHANGED <<tasks_file, audio_dir>>
    /\ UNCHANGED <<routerVars, detectVars, authVars>>

\* lines 288-289: load_user_tasks() and the choice of new_id
SaveLoad(r) ==
    /\ sv[r].pc = "load"
    /\ sv' = [sv EXCEPT ![r] =
                [@ EXCEPT !.tasks = tasks_file,
                          !.new_id = NewId(tasks_file),
                          !.pc = "audio"]]
    /\ UNCHANGED <<tasks_file, audio_dir>>
    /\ UNCHANGED <<routerVars, detectVars, authVars>>

\* lines 296-299: audio_file.save(sessions/<uid>/session_<new_id>.webm),
\* replacing a file of that name
SaveAudio(r) ==
    /\ sv[r].pc = "audio"
    /\ audio_dir' = [n \in DOMAIN audio_dir \cup {sv[r].new_id} |->
                        IF n = sv[r].new_id THEN r ELSE audio_dir[n]]
    /\ sv' = [sv EXCEPT ![r] = [@ EXCEPT !.pc = "save"]]
    /\ UNCHANGED tasks_file
    /\ UNCHANGED <<routerVars, detectVars, authVars>>

\* lines 301-313: tasks.append(task); save_user_tasks(tasks) rewrites the
\* whole file from the list this request loaded
SaveTasks(r) ==
    /\ sv[r].pc = "save"
    /\ tasks_file' = Append(sv[r].tasks, [id |-> sv[r].new_id, by |-> r])
    /\ sv' = [sv EXCEPT ![r] = [@ EXCEPT !.pc = "done"]]
    /\ UNCHANGED audio_dir
    /\ UNCHANGED <<routerVars, detectVars, authVars>>

InitTasks ==
    /\ RouterIdle
    /\ DetectIdle
    /\ AuthIdle
    /\ TasksIdle

NextTasks ==
    \E r \in Requests :
        \/ \E a \in AudioParts : SaveBegin(r, a)
        \/ SaveLoad(r)
        \/ SaveAudio(r)
        \/ SaveTasks(r)

SpecTasks == InitTasks /\ [][NextTasks]_vars

-----------------------------------------------------------------------------
(* detect_lang applied to a text, app.py:123-126 *)

\* longest text given to detect_lang
MaxDetectLen == 3

\* a Latin letter, an ideograph, a digit, and a code point of the range
\* that older Unicode databases leave unassigned
DetectChars == {"h", "Z", "1", "U"}

DetectTexts == UNION {[1..n -> DetectChars] : n \in 0..MaxDetectLen}

InitDetect ==
    /\ RouterIdle
    /\ AuthIdle
    /\ TasksIdle
    /\ cjk_all_alpha \in BOOLEAN
    /\ dl_text \in DetectTexts
    /\ dl_out = "none"

\* detect_lang(dl_text): reads its argument only and writes nothing
Detect ==
    /\ dl_out = "none"
    /\ dl_out' = detect_lang(dl_text)
    /\ UNCHANGED <<cjk_all_alpha, dl_text>>
    /\ UNCHANGED <<routerVars, authVars, taskVars>>

NextDetect == Detect

SpecDetect == InitDetect /\ [][NextDetect]_vars

-----------------------------------------------------------------------------
(* What a request observes *)

Called(c) == req[c] # NoReq

ReqText(c) == req[c][1]

ReqSrc(c) == req[c][2]

ReqTgt(c) == req[c][3]

\* the cache key of caller c's request
ReqKey(c) == <<ReqText(c), ResolveSrc(ReqText(c), ReqSrc(c)), ReqTgt(c)>>

HasReturned(c) == Called(c) /\ ret[c].kind = "value"

Cached(k) == k \in DOMAIN translation_cache

\* the capability has been applied to the text (deterministic capabilities)
Applied(cap, text) == <<cap, text>> \in DOMAIN stub

-----------------------------------------------------------------------------
(* C1 *)

-----------------------------------------------------------------------------
(* C2 *)

\* the composed request <<text, src, tgt>> has returned to caller c
ComposedReturned(c, src, tgt) ==
    det /\ HasReturned(c) /\ ReqSrc(c) = src /\ ReqTgt(c) = tgt

\* v is cap2(cap1(text)) for every pair of functions that agrees with the
\* outputs the capabilities have given so far
IsComposition(v, cap1, cap2, text) ==
    \A m \in Outputs(cap1, text) : \A w \in Outputs(cap2, m) : v = w

\* C2 as stated: composition correctness.  For every text and every pair of
\* stub capabilities, resolve(t, "en", "zh-TW") is the zh-CN->zh-TW
\* conversion of the en->zh-CN capability's output for t, and
\* resolve(t, "zh-TW", "en") is the zh-CN->en capability's output for the
\* zh-TW->zh-CN conversion of t.
C2_Original ==
    \A c \in Callers :
        /\ ComposedReturned(c, "en", "zh-TW") =>
              IsComposition(ret[c].val, "model_en_zh", "converter_s2t", ReqText(c))
        /\ ComposedReturned(c, "zh-TW", "en") =>
              IsComposition(ret[c].val, "converter_t2s", "model_zh_en", ReqText(c))

\* what a composed request returns: "" for an empty text or an empty
\* intermediate text (line 130 of the second call), else cap2(cap1(text))
ComposedValue(v, cap1, cap2, text) ==
    IF text = <<>> THEN v = <<>>
    ELSE /\ Applied(cap1, text)
         /\ LET mid == stub[<<cap1, text>>]
            IN  IF mid = <<>> THEN v = <<>>
                ELSE Applied(cap2, mid) /\ v = stub[<<cap2, mid>>]

\* C2 amended: composition correctness.  For a non-empty text whose first
\* hop output is non-empty, the composed request returns the second
\* capability applied to the first capability's output; for an empty text,
\* or an empty first hop output, it returns "" and the second capability
\* is not consulted.
C2_Composition ==
    \A c \in Callers :
        /\ ComposedReturned(c, "en", "zh-TW") =>
              ComposedValue(ret[c].val, "model_en_zh", "converter_s2t", ReqText(c))
        /\ ComposedReturned(c, "zh-TW", "en") =>
              ComposedValue(ret[c].val, "converter_t2s", "model_zh_en", ReqText(c))

\* an en->zh-TW request returned the conversion of a non-empty translation
C2_Witness ==
    \E c \in Callers :
        /\ ComposedReturned(c, "en", "zh-TW")
        /\ ReqText(c) # <<>>
        /\ Applied("model_en_zh", ReqText(c))
        /\ stub[<<"model_en_zh", ReqText(c)>>] # <<>>
        /\ Applied("converter_s2t", stub[<<"model_en_zh", ReqText(c)>>])
        /\ ret[c].val = stub[<<"converter_s2t", stub[<<"model_en_zh", ReqText(c)>>]>>]

-----------------------------------------------------------------------------
(* C3 *)

OnlyCJK(text) == text # <<>> /\ \A i \in DOMAIN text : InCJK(text[i])

OnlyLatin(text) ==
    text # <<>> /\ \A i \in DOMAIN text : isalpha(text[i]) /\ ~InCJK(text[i])

\* C3: auto-resolution.  A request with source "auto" and a text of CJK
\* ideographs only is routed with source "zh-CN" and cached under
\* <<text, "zh-CN", target>>; with a text of Latin letters only it is routed
\* with source "en".
C3_AutoResolution ==
    \A c \in Callers :
        (Called(c) /\ ReqSrc(c) = "auto" /\ (OnlyCJK(ReqText(c)) \/ OnlyLatin(ReqText(c)))) =>
            LET s == IF OnlyCJK(ReqText(c)) THEN "zh-CN" ELSE "en"
            IN  /\ Running(c) => stack[c][1].src = s
                /\ HasReturned(c) => Cached(<<ReqText(c), s, ReqTgt(c)>>)

-----------------------------------------------------------------------------
(* C4 *)

\* C4: empty text.  A request with the empty text, whatever its source and
\* target, has returned "" without a frame going past line 131 and without
\* a capability invocation; no frame of translate_text_process past line
\* 131 holds an empty text, and no cache key has an empty text.
C4_EmptyText ==
    /\ \A c \in Callers :
          (Called(c) /\ ReqText(c) = <<>>) =>
              ret[c] = Returned(<<>>) /\ trace[c] = <<>> /\ ~Running(c)
    /\ \A c \in Callers : \A i \in DOMAIN stack[c] : stack[c][i].text # <<>>
    /\ \A k \in DOMAIN translation_cache : k[1] # <<>>

\* an empty request with source "auto" was answered against a filled cache
C4_Witness ==
    \E c \in Callers :
        /\ Called(c) /\ ReqText(c) = <<>> /\ ReqSrc(c) = "auto"
        /\ ret[c] = Returned(<<>>)
        /\ DOMAIN translation_cache # {}

-----------------------------------------------------------------------------
(* C5 *)

AllFrames == UNION {{stack[c][i] : i \in DOMAIN stack[c]} : c \in Callers}

\* C5 as stated: "auto" is never the source or the target of a cache key,
\* nor of the language pair a frame dispatches on.
C5_Original ==
    /\ \A k \in DOMAIN translation_cache : k[2] # "auto" /\ k[3] # "auto"
    /\ \A f \in AllFrames : f.src # "auto" /\ f.tgt # "auto"

\* C5 amended: "auto" is never the source of a cache key nor of the pair a
\* frame dispatches on, and no capability is invoked under a pair holding
\* "auto"; a target "auto" is an unrecognized pair, whose text is passed
\* through and cached with "auto" as the key's target.
C5_AutoNeverSource ==
    /\ \A k \in DOMAIN translation_cache :
          /\ k[2] # "auto"
          /\ k[3] = "auto" => translation_cache[k] = k[1]
    /\ \A f \in AllFrames :
          /\ f.src # "auto"
          /\ f.tgt = "auto" => Route(f.src, f.tgt) = "passthrough"
    /\ \A c \in Callers :
          trace[c] # <<>> => ReqKey(c)[2] # "auto" /\ ReqTgt(c) # "auto"

\* a request with source "auto" and target "auto" was cached
C5_Witness ==
    \E c \in Callers :
        /\ HasReturned(c) /\ ReqSrc(c) = "auto" /\ ReqTgt(c) = "auto"
        /\ ReqText(c) # <<>>
        /\ Cached(ReqKey(c))
        /\ ReqKey(c)[2] # "auto"

-----------------------------------------------------------------------------
(* C6 *)

\* the caller whose frames moved in the step
Acts(c) == stack'[c] # stack[c]

\* C6 as stated: cache entries are write-once.  In every execution, also
\* with concurrent callers and non-deterministic capabilities, a key that is
\* in the cache with a value keeps that value in every later state.
C6_Original ==
    [][\A k \in DOMAIN translation_cache :
          /\ k \in DOMAIN translation_cache'
          /\ translation_cache'[k] = translation_cache[k]]_vars

\* C6 amended: a key that is in the cache stays in the cache, and its value
\* changes only when the capabilities are not deterministic and the store
\* of line 167 is made by a caller other than the one that created the
\* entry, that is by a caller that had missed the key before it was stored.
C6_WriteOnce ==
    [][\A k \in DOMAIN translation_cache :
          /\ k \in DOMAIN translation_cache'
          /\ translation_cache'[k] # translation_cache[k] =>
                /\ ~det
                /\ \E c \in Callers : Acts(c) /\ storedBy[k] # c]_vars

\* two callers stored different results under one key; the key is still
\* cached and holds the later result
C6_Witness ==
    \E c \in Callers, d \in Callers :
        /\ c # d /\ ~det
        /\ HasReturned(c) /\ HasReturned(d)
        /\ ReqKey(c) = ReqKey(d)
        /\ ret[c].val # ret[d].val
        /\ Cached(ReqKey(c))
        /\ storedBy[ReqKey(c)] = c
        /\ translation_cache[ReqKey(c)] = ret[d].val

-----------------------------------------------------------------------------
(* C7 *)

\* caller c holds a capability's result for its frame's key and stands
\* before the store of line 167
HoldsUnstored(c) ==
    /\ Running(c)
    /\ Top(c).pc = "store"
    /\ Route(Top(c).src, Top(c).tgt) \in Capabilities

\* C7: at-most-once-compute race.  Nothing orders one caller's miss at line
\* 137 and another caller's store at line 167: a caller that stands before
\* its store has itself invoked the capability for its key, and finds the
\* key already cached only when another caller stored it in the meantime;
\* one caller alone never computes a key it has stored.
C7_Race ==
    \A c \in Callers :
        /\ (Running(c) /\ Top(c).pc = "store" /\ Cached(FrameKey(Top(c)))) =>
              storedBy[FrameKey(Top(c))] # c
        /\ HoldsUnstored(c) =>
              /\ trace[c] # <<>>
              /\ trace[c][Len(trace[c])] =
                    <<Route(Top(c).src, Top(c).tgt), Top(c).text, "ok">>

\* both callers missed the same direct key and both invoked its capability
\* before either stored: two invocations for one key
C7_Witness ==
    \E c \in Callers, d \in Callers :
        /\ c # d
        /\ HoldsUnstored(c) /\ HoldsUnstored(d)
        /\ FrameKey(Top(c)) = FrameKey(Top(d))
        /\ ~Cached(FrameKey(Top(c)))
        /\ trace[c] = <<<<Route(Top(c).src, Top(c).tgt), Top(c).text, "ok">>>>
        /\ trace[d] = trace[c]

-----------------------------------------------------------------------------
(* C8 *)

Failed(c) == \E i \in DOMAIN trace[c] : trace[c][i][3] = "failed"

\* the key of the frame that invoked capability cap on text
InvokedKey(cap, text) ==
    IF cap = "model_en_zh" THEN <<text, "en", "zh-CN">>
    ELSE IF cap = "model_zh_en" THEN <<text, "zh-CN", "en">>
    ELSE IF cap = "converter_s2t" THEN <<text, "zh-CN", "zh-TW">>
    ELSE <<text, "zh-TW", "zh-CN">>

\* C8: capability failure.  A request raises exactly when a capability it
\* invoked failed; the failure ends the request at once, in a composed
\* request too (no frame is left, no later invocation is made, no value is
\* returned), and the request stores neither the key whose capability
\* failed nor the request's own key.
C8_CapabilityFailure ==
    \A c \in Callers :
        /\ ret[c].kind = "raised" => Failed(c)
        /\ Failed(c) =>
              LET n == Len(trace[c])
              IN  /\ ret[c] = Raised
                  /\ ~Running(c)
                  /\ trace[c][n][3] = "failed"
                  /\ \A i \in 1..(n - 1) : trace[c][i][3] = "ok"
                  /\ \A k \in {ReqKey(c), InvokedKey(trace[c][n][1], trace[c][n][2])} :
                        Cached(k) => storedBy[k] # c

\* a composed request whose first hop was computed and cached and whose
\* second hop failed: the composed key is not cached
C8_Witness ==
    \E c \in Callers :
        /\ ret[c] = Raised
        /\ ReqSrc(c) = "en" /\ ReqTgt(c) = "zh-TW"
        /\ Len(trace[c]) = 2
        /\ trace[c][1] = <<"model_en_zh", ReqText(c), "ok">>
        /\ trace[c][2][1] = "converter_s2t" /\ trace[c][2][3] = "failed"
        /\ Cached(<<ReqText(c), "en", "zh-CN">>)
        /\ ~Cached(<<ReqText(c), "en", "zh-TW">>)

-----------------------------------------------------------------------------
(* C9 *)

\* caller c's request is the first one, made on the empty cache, and has
\* returned
FirstReturned(c, src, tgt) ==
    /\ ncalls = 1
    /\ HasReturned(c)
    /\ ReqText(c) # <<>>
    /\ ReqSrc(c) = src /\ ReqTgt(c) = tgt

\* the cache holds <<t, src, via>> -> mid, <<mid, via, tgt>> -> v and
\* <<t, src, tgt>> -> v, and nothing else
ThreeEntries(t, src, via, tgt, v) ==
    /\ Cached(<<t, src, via>>)
    /\ LET mid == translation_cache[<<t, src, via>>]
       IN  Cached(<<mid, via, tgt>>) /\ translation_cache[<<mid, via, tgt>>] = v
    /\ Cached(<<t, src, tgt>>) /\ translation_cache[<<t, src, tgt>>] = v
    /\ Cardinality(DOMAIN translation_cache) = 3

\* the cache holds <<t, src, via>> -> "" and <<t, src, tgt>> -> "", and
\* nothing else
TwoEntries(t, src, via, tgt, v) ==
    /\ v = <<>>
    /\ DOMAIN translation_cache = {<<t, src, via>>, <<t, src, tgt>>}
    /\ translation_cache[<<t, src, via>>] = <<>>
    /\ translation_cache[<<t, src, tgt>>] = <<>>

\* C9 as stated: per-hop caching.  After resolve(t, "en", "zh-TW") returns
\* for a non-empty t on the empty cache, the cache holds the three entries
\* <<t, en, zh-CN>> -> mid, <<mid, zh-CN, zh-TW>> -> result and
\* <<t, en, zh-TW>> -> result, for every mid; likewise for zh-TW -> en.
C9_Original ==
    \A c \in Callers :
        /\ FirstReturned(c, "en", "zh-TW") =>
              ThreeEntries(ReqText(c), "en", "zh-CN", "zh-TW", ret[c].val)
        /\ FirstReturned(c, "zh-TW", "en") =>
              ThreeEntries(ReqText(c), "zh-TW", "zh-CN", "en", ret[c].val)

\* C9 amended: per-hop caching.  After the composed request returns for a
\* non-empty t on the empty cache, the cache holds the three entries when
\* the first hop's output mid is non-empty; when mid is empty the second
\* hop returns at line 131 without an entry, the result is "", and the
\* cache holds the two entries <<t, src, zh-CN>> -> "" and <<t, src, tgt>> -> "".
C9_PerHopCaching ==
    \A c \in Callers :
        /\ FirstReturned(c, "en", "zh-TW") =>
              \/ ThreeEntries(ReqText(c), "en", "zh-CN", "zh-TW", ret[c].val)
                    /\ translation_cache[<<ReqText(c), "en", "zh-CN">>] # <<>>
              \/ TwoEntries(ReqText(c), "en", "zh-CN", "zh-TW", ret[c].val)
        /\ FirstReturned(c, "zh-TW", "en") =>
              \/ ThreeEntries(ReqText(c), "zh-TW", "zh-CN", "en", ret[c].val)
                    /\ translation_cache[<<ReqText(c), "zh-TW", "zh-CN">>] # <<>>
              \/ TwoEntries(ReqText(c), "zh-TW", "zh-CN", "en", ret[c].val)

\* a zh-TW -> en request on the empty cache left three entries
C9_Witness ==
    \E c \in Callers :
        /\ FirstReturned(c, "zh-TW", "en")
        /\ ThreeEntries(ReqText(c), "zh-TW", "zh-CN", "en", ret[c].val)
        /\ Len(trace[c]) = 2

-----------------------------------------------------------------------------
(* C10 *)

\* caller c's top frame is about to make the recursive call of a hop
AtHop(c) ==
    /\ Running(c)
    /\ IsComposed(Top(c).src, Top(c).tgt)
    /\ Top(c).pc \in {"dispatch", "hop2"}

\* the key that hop looks up
HopKey(c) ==
    IF Top(c).pc = "dispatch"
    THEN <<Top(c).text, Hop1Pair(Top(c).src, Top(c).tgt)[1], Hop1Pair(Top(c).src, Top(c).tgt)[2]>>
    ELSE <<Top(c).mid, Hop2Pair(Top(c).src, Top(c).tgt)[1], Hop2Pair(Top(c).src, Top(c).tgt)[2]>>

\* C10: hop reuse.  A hop of a composed request whose key is in the cache
\* takes the cached value in one step, with no frame and no capability
\* invocation; a frame is entered for a hop only when its key is not
\* cached, and a composed request invokes capabilities only in such frames.
C10_HopReuse ==
    [][\A c \in Callers :
          /\ (AtHop(c) /\ Acts(c) /\ Cached(HopKey(c))) =>
                /\ trace'[c] = trace[c]
                /\ Len(stack'[c]) = 1
                /\ LET g == stack'[c][1]
                   IN  IF Top(c).pc = "dispatch"
                       THEN g.pc = "hop2" /\ g.mid = translation_cache[HopKey(c)]
                       ELSE g.pc = "store" /\ g.result = translation_cache[HopKey(c)]
          /\ (Len(stack'[c]) = 2 /\ Len(stack[c]) = 1) =>
                /\ AtHop(c)
                /\ ~Cached(HopKey(c))
                /\ FrameKey(stack'[c][2]) = HopKey(c)
          /\ (Running(c) /\ Len(trace'[c]) > Len(trace[c])
                 /\ IsComposed(stack[c][1].src, stack[c][1].tgt)) =>
                Len(stack[c]) = 2]_vars

\* an en -> zh-TW request found its first hop cached and ran only the
\* conversion
C10_Witness ==
    \E c \in Callers :
        /\ HasReturned(c)
        /\ ReqSrc(c) = "en" /\ ReqTgt(c) = "zh-TW"
        /\ Len(trace[c]) = 1
        /\ trace[c][1][1] = "converter_s2t"
        /\ trace[c][1][2] = translation_cache[<<ReqText(c), "en", "zh-CN">>]
        /\ storedBy[<<ReqText(c), "en", "zh-CN">>] = c

-----------------------------------------------------------------------------
(* C11 *)

DirectPairs ==
    {<<"en", "zh-CN">>, <<"zh-CN", "en">>, <<"zh-CN", "zh-TW">>, <<"zh-TW", "zh-CN">>}

ComposedPairs == {<<"en", "zh-TW">>, <<"zh-TW", "en">>}

TablePairs == DirectPairs \cup ComposedPairs

\* the language pair of caller c's request after auto resolution
ReqPair(c) == <<ReqKey(c)[2], ReqTgt(c)>>

\* C11: unrecognized pair passthrough.  A request with a non-empty text
\* whose pair, after auto resolution, is none of the six table pairs makes
\* no capability invocation and no recursive call, does not raise, returns
\* the text verbatim and stores it under <<text, resolvedSource, target>>.
C11_Passthrough ==
    \A c \in Callers :
        (Called(c) /\ ReqText(c) # <<>> /\ ReqPair(c) \notin TablePairs) =>
            /\ trace[c] = <<>>
            /\ Len(stack[c]) <= 1
            /\ ret[c].kind # "raised"
            /\ HasReturned(c) =>
                  /\ ret[c].val = ReqText(c)
                  /\ Cached(ReqKey(c))
                  /\ translation_cache[ReqKey(c)] = ReqText(c)

\* a request from "fr" computed and stored its own text
C11_Witness ==
    \E c \in Callers :
        /\ HasReturned(c) /\ ReqText(c) # <<>>
        /\ ReqSrc(c) = "fr" /\ ReqTgt(c) = "zh-CN"
        /\ Cached(ReqKey(c)) /\ storedBy[ReqKey(c)] = c
        /\ ret[c].val = ReqText(c)

-----------------------------------------------------------------------------
(* C12 *)

\* C12: identity pairs.  A request whose source and target are the same
\* supported tag makes no capability invocation and no recursive call, does
\* not raise, and returns its text.
C12_IdentityPairs ==
    \A c \in Callers :
        (Called(c) /\ ReqSrc(c) = ReqTgt(c) /\ ReqSrc(c) \in {"en", "zh-CN", "zh-TW"}) =>
            /\ trace[c] = <<>>
            /\ Len(stack[c]) <= 1
            /\ Running(c) => Top(c).pc \in {"dispatch", "store"}
            /\ ret[c].kind # "raised"
            /\ HasReturned(c) => ret[c].val = ReqText(c)

\* a zh-CN -> zh-CN request returned its non-empty text
C12_Witness ==
    \E c \in Callers :
        /\ HasReturned(c) /\ ReqText(c) # <<>>
        /\ ReqSrc(c) = "zh-CN" /\ ReqTgt(c) = "zh-CN"
        /\ ret[c].val = ReqText(c)
        /\ storedBy[ReqKey(c)] = c

-----------------------------------------------------------------------------
(* C15 *)

\* the capability of a direct pair
DirectCap(pair) ==
    IF pair = <<"en", "zh-CN">> THEN "model_en_zh"
    ELSE IF pair = <<"zh-CN", "en">> THEN "model_zh_en"
    ELSE IF pair = <<"zh-CN", "zh-TW">> THEN "converter_s2t"
    ELSE "converter_t2s"

\* C15: direct dispatch.  A request with a non-empty text and a direct pair
\* makes no recursive call and invokes at most one capability, the one of
\* its pair, on the raw text; after a miss it stands before its store with
\* exactly that one invocation made, and it returns and caches the
\* capability's output.  No frame of a table pair takes the passthrough
\* branch: a direct frame before its store has invoked its capability on
\* its text, and a composed frame holds the result of its second hop.
C15_DirectDispatch ==
    /\ \A c \in Callers :
          (Called(c) /\ ReqText(c) # <<>> /\ ReqPair(c) \in DirectPairs) =>
              LET cap == DirectCap(ReqPair(c))
              IN  /\ Len(stack[c]) <= 1
                  /\ \A i \in DOMAIN trace[c] :
                        i = 1 /\ trace[c][i][1] = cap /\ trace[c][i][2] = ReqText(c)
                  /\ (Running(c) /\ Top(c).pc = "store") =>
                        trace[c] = <<<<cap, ReqText(c), "ok">>>>
                  /\ (HasReturned(c) /\ trace[c] # <<>>) =>
                        /\ Cached(ReqKey(c))
                        /\ det => /\ Applied(cap, ReqText(c))
                                  /\ ret[c].val = stub[<<cap, ReqText(c)>>]
                                  /\ translation_cache[ReqKey(c)] = ret[c].val
    /\ \A c \in Callers :
          (Running(c) /\ Top(c).pc = "store") =>
              LET f == Top(c)
              IN  /\ <<f.src, f.tgt>> \in DirectPairs =>
                        /\ trace[c] # <<>>
                        /\ trace[c][Len(trace[c])] =
                              <<DirectCap(<<f.src, f.tgt>>), f.text, "ok">>
                  /\ <<f.src, f.tgt>> \in ComposedPairs =>
                        /\ Cached(<<f.text, f.src, "zh-CN">>)
                        /\ f.mid = <<>> => f.result = <<>>

\* a zh-TW -> zh-CN request missed, invoked converter_t2s once on its text
\* and returned and cached the output
C15_Witness ==
    \E c \in Callers :
        /\ det /\ HasReturned(c)
        /\ ReqSrc(c) = "zh-TW" /\ ReqTgt(c) = "zh-CN"
        /\ trace[c] = <<<<"converter_t2s", ReqText(c), "ok">>>>
        /\ ret[c].val = stub[<<"converter_t2s", ReqText(c)>>]
        /\ ret[c].val # ReqText(c)
        /\ translation_cache[ReqKey(c)] = ret[c].val

-----------------------------------------------------------------------------
(* C16 *)

\* v is what the routing of lines 140-165 yields for key k without a cache,
\* the capabilities being the functions recorded in stub
Uncached(k, v) ==
    LET t == k[1]
        pair == <<k[2], k[3]>>
    IN  IF pair \in DirectPairs
        THEN Applied(DirectCap(pair), t) /\ v = stub[<<DirectCap(pair), t>>]
        ELSE IF pair = <<"en", "zh-TW">>
        THEN ComposedValue(v, "model_en_zh", "converter_s2t", t)
        ELSE IF pair = <<"zh-TW", "en">>
        THEN ComposedValue(v, "converter_t2s", "model_zh_en", t)
        ELSE v = t

\* C16: cache soundness.  With deterministic capabilities every cache entry
\* holds, in every reachable state, the value the uncached routing gives
\* for its key, and every request that has returned has returned the value
\* the uncached routing gives for its arguments; so an entry is never the
\* value of another source or target of the same text.
C16_CacheSoundness ==
    det =>
      /\ \A k \in DOMAIN translation_cache :
            k[1] # <<>> /\ Uncached(k, translation_cache[k])
      /\ \A c \in Callers :
            HasReturned(c) =>
               IF ReqText(c) = <<>> THEN ret[c].val = <<>>
               ELSE Uncached(ReqKey(c), ret[c].val)

\* one text is cached under two pairs with two different values, and two
\* callers raced on one of them
C16_Witness ==
    /\ det
    /\ \E k1 \in DOMAIN translation_cache, k2 \in DOMAIN translation_cache :
          /\ k1[1] = k2[1] /\ k1[2] # k2[2]
          /\ translation_cache[k1] # translation_cache[k2]
    /\ \E c \in Callers, d \in Callers :
          /\ c # d /\ HasReturned(c) /\ HasReturned(d)
          /\ ReqKey(c) = ReqKey(d)
          /\ trace[c] # <<>> /\ trace[d] # <<>>

-----------------------------------------------------------------------------
(* C13 *)

\* the shape of caller c's stack: at most the top-level frame and one hop
\* frame; a hop frame has a direct pair and sits on a composed frame that
\* waits in one of its two recursive calls
FixedDepth(c) ==
    /\ Len(stack[c]) <= 2
    /\ Len(stack[c]) = 2 =>
          /\ <<stack[c][1].src, stack[c][1].tgt>> \in ComposedPairs
          /\ stack[c][1].pc \in {"hop1", "hop2w"}
          /\ <<stack[c][2].src, stack[c][2].tgt>> \in DirectPairs
          /\ stack[c][2].pc \in {"dispatch", "store"}
    /\ (Len(stack[c]) = 1 /\ <<stack[c][1].src, stack[c][1].tgt>> \notin ComposedPairs) =>
          stack[c][1].pc \in {"dispatch", "store"}
    /\ Len(trace[c]) <= 2

\* C13: fixed composition depth and termination.  A request makes
\* recursive calls only for the two composed pairs, a recursive call makes
\* none, a request makes at most two capability invocations, and every
\* request that is running comes to its end when the capabilities it
\* invokes come back.
C13_FixedDepthTermination ==
    /\ [](\A c \in Callers : FixedDepth(c))
    /\ \A c \in Callers : Running(c) ~> ~Running(c)

\* a composed request is two frames deep with its second capability
\* invocation about to be stored
C13_Witness ==
    \E c \in Callers :
        /\ Len(stack[c]) = 2
        /\ stack[c][1].pc = "hop2w"
        /\ stack[c][2].pc = "store"
        /\ Len(trace[c]) = 2

-----------------------------------------------------------------------------
(* C14 *)

RECURSIVE CountCJK(_)
\* characters of text in U+4E00..U+9FFF
CountCJK(text) ==
    IF text = <<>> THEN 0
    ELSE (IF InCJK(Head(text)) THEN 1 ELSE 0) + CountCJK(Tail(text))

RECURSIVE CountAlpha(_)
\* alphabetic characters of text
CountAlpha(text) ==
    IF text = <<>> THEN 0
    ELSE (IF isalpha(Head(text)) THEN 1 ELSE 0) + CountAlpha(Tail(text))

\* C14: detect_lang is total and changes nothing; its result is "zh-CN" or
\* "en", never "auto"; it is "zh-CN" exactly when the text has more
\* characters in U+4E00..U+9FFF than alphabetic characters; the empty text
\* gives "en".
C14_DetectLang ==
    /\ dl_out = "none" => ENABLED Detect
    /\ translation_cache = [k \in {} |-> <<>>]
    /\ dl_out # "none" =>
          /\ dl_out \in {"zh-CN", "en"}
          /\ dl_out # "auto"
          /\ dl_out = "zh-CN" <=> CountCJK(dl_text) > CountAlpha(dl_text)
          /\ dl_text = <<>> => dl_out = "en"

\* detect_lang has answered "zh-CN" for a text that holds a letter
C14_Witness ==
    /\ dl_out = "zh-CN"
    /\ \E i \in DOMAIN dl_text : isalpha(dl_text[i])

-----------------------------------------------------------------------------
(* C17 *)

\* C17: the login gate.  In every session the server has issued,
\* dev_verified true implies user_id present; dev_verified turns true only
\* in a POST to verify_dev with the developer password in a session that
\* has user_id; auth_callback leaves dev_verified false; logout clears
\* both keys; the body of a handler behind login_required runs only in a
\* session with user_id and dev_verified true.
C17_LoginGate ==
    /\ \A s \in jar : s.dev_verified = "true" => s.user_id # "absent"
    /\ (last.after.dev_verified = "true" /\ last.before.dev_verified # "true") =>
          /\ last.handler = "verify_dev"
          /\ last.method = "POST"
          /\ last.pwd = DEV_PASSWORD
          /\ last.before.user_id # "absent"
    /\ (last.handler = "auth_callback" /\ last.ran) =>
          /\ last.after.dev_verified = "false"
          /\ last.after.user_id # "absent"
    /\ last.handler = "logout" => last.after = NoSession
    /\ (last.handler \in ProtectedHandlers /\ last.ran) =>
          /\ last.before.user_id # "absent"
          /\ last.before.dev_verified = "true"

\* a protected body has run for u2 while the browser still holds an older
\* cookie of u1 that was never verified
C17_Witness ==
    /\ last.handler = "save_session"
    /\ last.ran
    /\ last.before.user_id = "u2"
    /\ [user_id |-> "u1", dev_verified |-> "false"] \in jar

-----------------------------------------------------------------------------
(* C18 *)

\* the tasks of the user's list that request r created
TasksOf(r) == {i \in DOMAIN tasks_file : tasks_file[i].by = r}

\* C18: task ids under concurrent save_session requests of one user.  The
\* ids of the list are pairwise distinct; every accepted request has
\* exactly one task in the list; the file session_<id>.webm of a task holds
\* the recording of the request that created the task; a request without
\* a recording leaves no task and no file.
C18_TaskIds ==
    /\ \A i, j \in DOMAIN tasks_file :
          i # j => tasks_file[i].id # tasks_file[j].id
    /\ \A r \in Requests :
          sv[r].pc = "done" => Cardinality(TasksOf(r)) = 1
    /\ \A i \in DOMAIN tasks_file :
          /\ tasks_file[i].id \in DOMAIN audio_dir
          /\ audio_dir[tasks_file[i].id] = tasks_file[i].by
    /\ \A r \in Requests :
          sv[r].pc = "refused" =>
             /\ TasksOf(r) = {}
             /\ \A n \in DOMAIN audio_dir : audio_dir[n] # r

-----------------------------------------------------------------------------
(* Type correctness *)

Frames ==
    [text : Texts, src : LanguageTags, tgt : LanguageTags,
     pc : {"dispatch", "hop1", "hop2", "hop2w", "store"},
     mid : Texts, result : Texts]

TypeOK ==
    /\ \A k \in DOMAIN translation_cache : translation_cache[k] \in Texts
    /\ \A c \in Callers :
          /\ Len(stack[c]) <= 2
          /\ \A i \in DOMAIN stack[c] : stack[c][i] \in Frames
    /\ ncalls \in 0..MaxCalls
    /\ dl_text \in DetectTexts
    /\ dl_out \in {"none", "zh-CN", "en"}
    /\ jar \subseteq Sessions
    /\ last.before \in Sessions /\ last.after \in Sessions
    /\ \A r \in Requests :
          sv[r].pc \in {"idle", "refused", "load", "audio", "save", "done"}
    /\ \A i \in DOMAIN tasks_file : tasks_file[i].by \in Requests

====
